---------------------------- MODULE Spec2Model ----------------------------
(***************************************************************************)
(* The snake game of src/src/main.rs as a state machine.                   *)
(*                                                                         *)
(* One step of the machine is one frame of the engine's schedule built in  *)
(* main(): the Update systems snake_movement_input, snake_movement and     *)
(* food_spawner, the flush of the spawn commands, then the PostUpdate      *)
(* systems position_translation and size_scaling.  food_spawner is not     *)
(* ordered against the two snake systems, but it shares no data with them  *)
(* (its own timer, and commands that are applied only at the flush), so    *)
(* every order the engine may pick gives the same frame.                   *)
(*                                                                         *)
(* Time is counted in units of 1/20 s, in which both timer periods (0.15 s *)
(* and 1 s) are whole numbers.  Pixel quantities are whole numbers for the *)
(* 500x500 window and the 10x10 arena, so the f32 arithmetic of the render *)
(* mapping is modelled with integers.                                      *)
(***************************************************************************)
EXTENDS Integers, Sequences, FiniteSets

\* ------------------------------------------------------------ constants
ARENA_WIDTH == 10
ARENA_HEIGHT == 10
RES_WIDTH == 500
RES_HEIGHT == 500

\* Timer::from_seconds(0.15, Repeating) and Timer::from_seconds(1., Repeating),
\* in units of 1/20 s.
MovementPeriod == 3
FoodPeriod == 20

\* Size::square(0.8), in tenths.
SizeTenths == 8

\* ---------------------------------------------------------------- bounds
\* The longest frame (time.delta()) in time units.
MaxDelta == 3
\* Frames are taken while the total elapsed time stays within MaxTime.
MaxTime == 21
\* random::<f32>() is drawn from the grid {k / RandDen}; the frames draw its
\* two ends, 0 and (RandDen - 1) / RandDen, and its middle.
RandDen == 16
\* Frames with several arrow keys held at once are taken while the total
\* elapsed time stays within MaxChordTime; later frames hold at most one.
MaxChordTime == 3

Keys == {"Left", "Down", "Up", "Right"}
Directions == {"Left", "Up", "Right", "Down"}
Deltas == 0..MaxDelta
RandDraws == {0, RandDen \div 2, RandDen - 1}

VARIABLES
    head_direction,   \* SnakeHead.direction of the one snake head
    head_pos,         \* the head's Position
    head_transform,   \* the head's Transform (translation and scale, x and y)
    movement_timer,   \* MovementTimer
    food_timer,       \* FoodSpawnTimer
    foods,            \* the food entities in spawn order
    keyboard_input,   \* the arrow keys held in the current frame
    time_elapsed,     \* total of the frames' time.delta()
    last_move         \* the direction the latest movement tick applied

vars == <<head_direction, head_pos, head_transform, movement_timer, food_timer,
          foods, keyboard_input, time_elapsed, last_move>>

\* ------------------------------------------------------------- arithmetic
\* Rust's % on i32: the remainder of the division truncated toward zero.
rem(a, b) == IF a >= 0 THEN a % b ELSE -((-a) % b)

\* Rust's `as i32` of the quotient n / d (d > 0): truncation toward zero.
trunc(n, d) == IF n >= 0 THEN n \div d ELSE -((-n) \div d)

\* ------------------------------------------------------------- Direction
\* Mutant: the match arms pair each direction with a quarter turn.
opposite_turned(d) ==
    CASE d = "Left" -> "Down"
      [] d = "Down" -> "Left"
      [] d = "Up" -> "Right"
      [] d = "Right" -> "Up"

opposite(d) ==
    CASE d = "Left" -> "Right"
      [] d = "Right" -> "Left"
      [] d = "Up" -> "Down"
      [] d = "Down" -> "Up"

\* ----------------------------------------------------------------- Timer
\* A repeating timer's tick(delta): the elapsed time wraps at the period and
\* times_finished_this_tick counts the periods completed by this tick.
NewTimer == [elapsed |-> 0, times_finished_this_tick |-> 0]

tick(timer, delta, period) ==
    LET e == timer.elapsed + delta
    IN  IF e >= period
        THEN [elapsed |-> e % period, times_finished_this_tick |-> e \div period]
        ELSE [elapsed |-> e, times_finished_this_tick |-> 0]

just_finished(timer) == timer.times_finished_this_tick > 0

\* ------------------------------------------------------------- Transform
IdentityTransform == [translation |-> <<0, 0>>, scale |-> <<1, 1>>]

\* ---------------------------------------------------------- food_spawner
\* Mutant: the draw is not centred (the "- 0.5" is lost).
food_coord_uncentred(k, arena) == trunc(k * arena, RandDen)

\* ((random::<f32>() - 0.5) * arena as f32) as i32 for the draw k / RandDen.
food_coord(k, arena) == trunc((2 * k - RandDen) * arena, 2 * RandDen)

NewFood(kx, ky) ==
    [pos |-> [x |-> food_coord(kx, ARENA_WIDTH), y |-> food_coord(ky, ARENA_HEIGHT)],
     transform |-> IdentityTransform]

\* Mutant: the spawn is not gated by the timer.
food_spawner_ungated(timer, fs, kx, ky) == Append(fs, NewFood(kx, ky))

\* The food entities after food_spawner and the flush of its commands, given
\* the timer as ticked in this frame.
food_spawner(timer, fs, kx, ky) ==
    IF just_finished(timer) THEN Append(fs, NewFood(kx, ky)) ELSE fs

\* -------------------------------------------------- snake_movement_input
\* Mutant: the if-chain tests the keys in the order Left, Up, Down, Right.
desired_direction_reordered(keys, current) ==
    IF "Left" \in keys THEN "Left"
    ELSE IF "Up" \in keys THEN "Up"
    ELSE IF "Down" \in keys THEN "Down"
    ELSE IF "Right" \in keys THEN "Right"
    ELSE current

\* The `dir` of snake_movement_input: the first held key in the order of
\* the if-chain, else the head's own direction.
desired_direction(keys, current) ==
    IF "Left" \in keys THEN "Left"
    ELSE IF "Down" \in keys THEN "Down"
    ELSE IF "Up" \in keys THEN "Up"
    ELSE IF "Right" \in keys THEN "Right"
    ELSE current

\* Mutant: the desired direction is applied without the opposite test.
snake_movement_input_unchecked(keys, current) == desired_direction(keys, current)

snake_movement_input(keys, current) ==
    LET dir == desired_direction(keys, current)
    IN  IF dir /= opposite(current) THEN dir ELSE current

\* -------------------------------------------------------- snake_movement
\* Mutant: the step is not reduced modulo the arena.
move_unwrapped(pos, dir) ==
    CASE dir = "Left" -> [pos EXCEPT !.x = pos.x - 1]
      [] dir = "Right" -> [pos EXCEPT !.x = pos.x + 1]
      [] dir = "Up" -> [pos EXCEPT !.y = pos.y + 1]
      [] dir = "Down" -> [pos EXCEPT !.y = pos.y - 1]

\* Mutant: the step is reduced with the floored (never negative) modulo.
move_floored(pos, dir) ==
    CASE dir = "Left" -> [pos EXCEPT !.x = (pos.x - 1) % ARENA_WIDTH]
      [] dir = "Right" -> [pos EXCEPT !.x = (pos.x + 1) % ARENA_WIDTH]
      [] dir = "Up" -> [pos EXCEPT !.y = (pos.y + 1) % ARENA_HEIGHT]
      [] dir = "Down" -> [pos EXCEPT !.y = (pos.y - 1) % ARENA_HEIGHT]

move(pos, dir) ==
    CASE dir = "Left" -> [pos EXCEPT !.x = rem(pos.x - 1, ARENA_WIDTH)]
      [] dir = "Right" -> [pos EXCEPT !.x = rem(pos.x + 1, ARENA_WIDTH)]
      [] dir = "Up" -> [pos EXCEPT !.y = rem(pos.y + 1, ARENA_HEIGHT)]
      [] dir = "Down" -> [pos EXCEPT !.y = rem(pos.y - 1, ARENA_HEIGHT)]

\* The head's Position after snake_movement, given the timer as ticked in
\* this frame.
snake_movement(timer, pos, dir) ==
    IF just_finished(timer) THEN move(pos, dir) ELSE pos

\* -------------------------------------------- the Update stage on the head
\* Mutant: snake_movement runs before snake_movement_input.
update_head_movement_first(keys, timer, dir, pos) ==
    [direction |-> snake_movement_input(keys, dir),
     pos |-> snake_movement(timer, pos, dir)]

\* snake_movement_input.before(snake_movement): the movement reads the
\* direction the input system has just written.
update_head(keys, timer, dir, pos) ==
    LET d == snake_movement_input(keys, dir)
    IN  [direction |-> d, pos |-> snake_movement(timer, pos, d)]

\* ------------------------------------------------------------ PostUpdate
convert(pos, bound_window, bound_game) ==
    LET tile_size == bound_window \div bound_game
    IN  (pos * bound_window) \div bound_game - (bound_game \div 2) + (tile_size \div 2)

position_translation(pos) ==
    <<convert(pos.x, RES_WIDTH, ARENA_WIDTH), convert(pos.y, RES_HEIGHT, ARENA_HEIGHT)>>

\* sprite_size / ARENA * window resolution, for the square size 0.8.
size_scaling(size_tenths) ==
    <<(size_tenths * RES_WIDTH) \div (10 * ARENA_WIDTH),
      (size_tenths * RES_HEIGHT) \div (10 * ARENA_HEIGHT)>>

\* The Transform both PostUpdate systems leave on an entity at Position pos.
post_update(pos) ==
    [translation |-> position_translation(pos), scale |-> size_scaling(SizeTenths)]

\* ------------------------------------------------------------------ Init
\* The world after the startup systems: spawn_snake, spawn_food_timer,
\* spawn_movement_timer.  No frame has run, so no transform is computed yet.
Init ==
    /\ head_direction = "Up"
    /\ head_pos = [x |-> 3, y |-> 3]
    /\ head_transform = IdentityTransform
    /\ movement_timer = NewTimer
    /\ food_timer = NewTimer
    /\ foods = <<>>
    /\ keyboard_input = {}
    /\ time_elapsed = 0
    /\ last_move = "None"

\* ----------------------------------------------------------------- Frame
\* One frame: the keys held, the frame's time.delta(), and the two random
\* draws food_spawner makes if its timer finishes.
Frame(keys, delta, kx, ky) ==
    LET mt == tick(movement_timer, delta, MovementPeriod)
        ft == tick(food_timer, delta, FoodPeriod)
        head == update_head(keys, mt, head_direction, head_pos)
        spawned == food_spawner(ft, foods, kx, ky)
    IN  /\ time_elapsed + delta <= MaxTime
        /\ keyboard_input' = keys
        /\ time_elapsed' = time_elapsed + delta
        /\ movement_timer' = mt
        /\ food_timer' = ft
        /\ head_direction' = head.direction
        /\ head_pos' = head.pos
        /\ last_move' = IF just_finished(mt) THEN head.direction ELSE last_move
        /\ head_transform' = post_update(head.pos)
        /\ foods' = [i \in 1..Len(spawned) |->
                        [spawned[i] EXCEPT !.transform = post_update(spawned[i].pos)]]

\* random() is called only in a frame whose food timer finishes.
draws(delta) ==
    IF just_finished(tick(food_timer, delta, FoodPeriod)) THEN RandDraws ELSE {0}

\* The key sets a frame of length delta may hold.
held(delta) ==
    IF time_elapsed + delta <= MaxChordTime
    THEN SUBSET Keys
    ELSE {ks \in SUBSET Keys : Cardinality(ks) <= 1}

Next ==
    \E delta \in Deltas :
        \E keys \in held(delta), kx \in draws(delta), ky \in draws(delta) :
            Frame(keys, delta, kx, ky)

Spec == Init /\ [][Next]_vars

\* ================================================================ claims
\* What the claims speak of, stated apart from the definitions above.
OppositePairs ==
    {<<"Left", "Right">>, <<"Right", "Left">>, <<"Up", "Down">>, <<"Down", "Up">>}

\* The direction the head has after a frame that wants direction c.
Accepted(d, c) == IF <<d, c>> \in OppositePairs THEN d ELSE c

\* The remainder with the sign of the dividend, by its defining property.
SignedRem(a, n) ==
    CHOOSE r \in (1 - n)..(n - 1) :
        /\ (a - r) % n = 0
        /\ a >= 0 => r >= 0
        /\ a <= 0 => r <= 0

\* The priority of the arrow keys, and the first held key in it.
KeyOrder == <<"Left", "Down", "Up", "Right">>

FirstHeld(keys) ==
    KeyOrder[CHOOSE i \in 1..4 :
                /\ KeyOrder[i] \in keys
                /\ \A j \in 1..(i - 1) : KeyOrder[j] \notin keys]

\* The pixel centre of grid cell p on an axis of W pixels and G cells.
CentredPixel(p, W, G) == p * (W \div G) - (W \div 2) + ((W \div G) \div 2)

\* C1: whatever the head's direction d and the direction c that
\* snake_movement_input selects in a frame, the head keeps d when c is the
\* opposite of d and takes c otherwise (c = d included).
C1_OppositeRejected ==
    [][head_direction' =
          Accepted(head_direction,
                   desired_direction(keyboard_input', head_direction))]_vars

\* C1 witness: Down was requested while the head faces Up, and the head still
\* faces Up.
C1_Witness == keyboard_input = {"Down"} /\ head_direction = "Up"

\* C2: the directions applied by two consecutive movement ticks are never
\* opposite to each other.
C2_NoReversalBetweenTicks ==
    [][last_move /= "None" => <<last_move, last_move'>> \notin OppositePairs]_vars

\* C3: in every reachable state both head coordinates lie in
\* [-(ARENA - 1), ARENA - 1]; and a movement tick in any direction from any
\* position in that range stays in it, so no longer run of ticks leaves it.
C3_HeadInSignedRange ==
    LET XRange == -(ARENA_WIDTH - 1)..(ARENA_WIDTH - 1)
        YRange == -(ARENA_HEIGHT - 1)..(ARENA_HEIGHT - 1)
    IN  /\ head_pos.x \in XRange
        /\ head_pos.y \in YRange
        /\ \A x \in XRange, d \in Directions :
              move([x |-> x, y |-> head_pos.y], d).x \in XRange
        /\ \A y \in YRange, d \in Directions :
              move([x |-> head_pos.x, y |-> y], d).y \in YRange

\* C3 witness: ticks have carried the head to the upper end of the range.
C3_Witness == head_pos.x = ARENA_WIDTH - 1 /\ last_move = "Right"

\* C4: a frame whose movement timer has just finished changes exactly one
\* head coordinate, by one step along the head's direction reduced with the
\* sign-of-dividend remainder (Right from 9 gives 0, Left from 0 gives -1);
\* the direction is the one the frame's input left; a frame whose timer
\* has not finished leaves the position unchanged.
C4_MovementStep ==
    [][IF just_finished(movement_timer')
       THEN /\ head_direction' =
                 Accepted(head_direction,
                          desired_direction(keyboard_input', head_direction))
            /\ head_direction' = "Left" =>
                 head_pos' = [x |-> SignedRem(head_pos.x - 1, 10), y |-> head_pos.y]
            /\ head_direction' = "Right" =>
                 head_pos' = [x |-> SignedRem(head_pos.x + 1, 10), y |-> head_pos.y]
            /\ head_direction' = "Up" =>
                 head_pos' = [x |-> head_pos.x, y |-> SignedRem(head_pos.y + 1, 10)]
            /\ head_direction' = "Down" =>
                 head_pos' = [x |-> head_pos.x, y |-> SignedRem(head_pos.y - 1, 10)]
            /\ (head_direction' = "Right" /\ head_pos.x = 9) => head_pos'.x = 0
            /\ (head_direction' = "Left" /\ head_pos.x = 0) => head_pos'.x = -1
       ELSE head_pos' = head_pos]_vars

\* C4 witness: a Left tick has just taken the head from x = 0 to x = -1.
C4_Witness ==
    just_finished(movement_timer) /\ last_move = "Left" /\ head_pos.x = -1

\* C5: from the initial direction Up, a frame with only Left held makes the
\* direction Left, and a following frame with only Down held makes it Down,
\* whether or not either frame is a movement tick.
C5_LeftThenDown ==
    [][/\ (head_direction = "Up" /\ keyboard_input' = {"Left"}) =>
              head_direction' = "Left"
       /\ (head_direction = "Left" /\ keyboard_input = {"Left"}
              /\ keyboard_input' = {"Down"}) =>
              head_direction' = "Down"]_vars

\* C5 witness: Down is held and the head faces Down before any movement tick,
\* which from Up takes a quarter turn first.
C5_Witness ==
    keyboard_input = {"Down"} /\ head_direction = "Down" /\ last_move = "None"

\* C6: in each frame the desired direction is the first held arrow key in
\* the order Left, Down, Up, Right, for every set of held keys; the keys
\* after it are ignored even when it is rejected as the opposite of the
\* current direction; with no arrow key held the direction is unchanged.
C6_KeyPriority ==
    [][IF keyboard_input' = {}
       THEN head_direction' = head_direction
       ELSE head_direction' = Accepted(head_direction, FirstHeld(keyboard_input'))]_vars

\* C6 witness: Down and Right are held while the head faces Up; Down is
\* picked and rejected, and Right is not taken in its place.
C6_Witness == keyboard_input = {"Down", "Right"} /\ head_direction = "Up"

\* C7: every food entity, for every random draw, has a Position within the
\* arena's centred bounds -ARENA/2 .. ARENA/2 on each axis.
C7_FoodInCentredBounds ==
    /\ \A i \in 1..Len(foods) :
          /\ foods[i].pos.x \in -(ARENA_WIDTH \div 2)..(ARENA_WIDTH \div 2)
          /\ foods[i].pos.y \in -(ARENA_HEIGHT \div 2)..(ARENA_HEIGHT \div 2)
    /\ \A k \in 0..(RandDen - 1) :
          /\ NewFood(k, k).pos.x \in -(ARENA_WIDTH \div 2)..(ARENA_WIDTH \div 2)
          /\ NewFood(k, k).pos.y \in -(ARENA_HEIGHT \div 2)..(ARENA_HEIGHT \div 2)

\* C7 witness: a food entity spawned from the draw 0 on x, on the lower bound.
C7_Witness ==
    Len(foods) >= 1 /\ foods[1].pos.x = -(ARENA_WIDTH \div 2)

\* C8: once a frame has run, the head's translation is the centred pixel
\* coordinate p * (W / G) - W / 2 + (W / G) / 2 of its grid position on each
\* axis, inside the window.
C8_CentredTranslation ==
    time_elapsed > 0 =>
        /\ head_transform.translation =
              <<CentredPixel(head_pos.x, RES_WIDTH, ARENA_WIDTH),
                CentredPixel(head_pos.y, RES_HEIGHT, ARENA_HEIGHT)>>
        /\ (head_pos.x \in 0..(ARENA_WIDTH - 1)) =>
              head_transform.translation[1] \in -(RES_WIDTH \div 2)..(RES_WIDTH \div 2)

\* C9: in a frame whose movement timer fires the head moves in the direction
\* that the same frame's key input results in, and the head's transform at
\* the end of the frame is computed from the position after the move.
C9_InputBeforeMovement ==
    [][/\ just_finished(movement_timer') =>
              head_pos' = move(head_pos, Accepted(head_direction,
                                    desired_direction(keyboard_input', head_direction)))
       /\ head_transform' = post_update(head_pos')]_vars

\* C9 witness: the first movement tick, in a frame holding Left, has moved
\* the head one cell to the left of its spawn cell, and the transform shows it.
C9_Witness ==
    /\ just_finished(movement_timer)
    /\ time_elapsed = MovementPeriod
    /\ keyboard_input = {"Left"}
    /\ head_pos = [x |-> 2, y |-> 3]
    /\ head_transform.translation = position_translation([x |-> 2, y |-> 3])

\* C10: food is only ever added: no food entity disappears or changes its
\* Position; a frame whose food timer has just finished adds exactly one food
\* entity and any other frame adds none; and a frame in which no key is held
\* and the movement timer does not fire leaves the head as it was, spawn or
\* no spawn.
C10_FoodOnlyAdded ==
    [][/\ Len(foods') = Len(foods) + (IF just_finished(food_timer') THEN 1 ELSE 0)
       /\ \A i \in 1..Len(foods) : foods'[i].pos = foods[i].pos
       /\ (keyboard_input' = {} /\ ~just_finished(movement_timer')) =>
              (head_pos' = head_pos /\ head_direction' = head_direction)]_vars

\* C10 witness: the food timer alone has just fired, with no key held, and
\* one food entity exists.
C10_Witness ==
    /\ just_finished(food_timer)
    /\ ~just_finished(movement_timer)
    /\ keyboard_input = {}
    /\ Len(foods) = 1

=============================================================================
